---- MODULE Spec2Model ----
(***************************************************************************)
(* A model of tcbuilds (src/main.go).  The file holds two programs:        *)
(*                                                                         *)
(*  - the cache-lifetime server (lines 1-348): the read handler refreshes  *)
(*    the cache inline when it is nil or older than maxCacheTime;          *)
(*  - the refresh-loop server (lines 350-685): a worker goroutine          *)
(*    (refreshLoop) refreshes the cache once per request taken from the    *)
(*    capacity-1 channel refreshRequests; the /refresh/ handler enqueues   *)
(*    without blocking; the read handler only serves cacheData.            *)
(*                                                                         *)
(* Spec is the refresh-loop server.  A []byte is modelled by its slice     *)
(* header, which Go copies word by word: ptr names the buffer (0 is nil,   *)
(* k is the buffer rendered by refresh execution k) and len is the length  *)
(* of buffer k, written as k.  A header whose two words name different     *)
(* buffers is a torn value (a truncated or overlong view of a buffer).     *)
(***************************************************************************)
EXTENDS Integers, Sequences, FiniteSets, TLC

\* ------------------------------------------------------------- bounds
\* Requests the environment sends to /refresh/ in one run.
MaxTriggers == 2
\* Concurrent requests to / the HTTP server handles at a time.
NumReaders == 1
\* Cache-lifetime server: the minutes the clock runs for.
MaxNow == 7
\* Build configurations the listing call returns.
MaxTypes == 3
\* Artifact files a build has.
MaxFiles == 1
\* The most builds one lookup answer carries.
MaxBuilds == 2
\* The longest credential, in bytes, and the most segments of a path.
MaxAuthLen == 3
MaxSegments == 2

\* ------------------------------------------------------ program values
\* refreshRequests = make(chan struct{}, 1)
refreshRequestsCap == 1

Loop == <<"refreshLoop", 0>>
Readers == {<<"handler", i>> : i \in 1..NumReaders}
Triggers == {<<"refresh", 1>>}
Unlocked == <<"unlocked", 0>>
Goroutines == {Loop} \cup Readers \cup Triggers

\* A nil []byte, and the bytes rendered by refresh execution k.
NilSlice == [ptr |-> 0, len |-> 0]
Page(k) == [ptr |-> k, len |-> k]

\* The bytes of err.Error(), which http.Error writes.
ErrorText == [ptr |-> -1, len |-> -1]

\* Cache-lifetime server: maxCacheTime = 5 * time.Minute, in minutes.
maxCacheTime == 5
\* Refresh-loop server: maxCacheTime = 24 * time.Hour, in units of four hours.
maxCacheTimeLoop == 6
\* The zero time.Time cacheTime starts as, in minutes before the start.
ZeroTime == -1000000

NoResponse == [status |-> 0, ctype |-> "", body |-> NilSlice]
StatusOK == 200
StatusInternalServerError == 500
HtmlType == "text/html; charset=utf-8"
TextType == "text/plain; charset=utf-8"

VARIABLES
    mainPc,           \* main's position: spawn, send, listen, serving
    refreshRequests,  \* number of requests buffered in the channel
    cacheMut,         \* sync.Mutex: Unlocked, or the goroutine that locked it
    cacheData,        \* the published snapshot (a slice header)
    cacheTime,        \* cache-lifetime server: when cacheData was produced
    now,              \* the clock: minutes in the cache-lifetime server,
                      \* units of four hours in the refresh-loop server
    refreshedAt,      \* history: when the refresh worker last finished
    pc,               \* each goroutine's position
    bs,               \* each goroutine's local bs
    err,              \* each goroutine's local err: "" is nil, else the message
    resp,             \* the last response each read handler wrote
    cycle,            \* refresh executions started so far
    triggers,         \* requests to /refresh/ handled so far
    burst,            \* triggers handled during the execution in flight
    prevBurst,        \* burst of the execution that ended last
    late,             \* a trigger was handled since the last execution ended
    ranSince,         \* executions started since the last execution ended
    tplPc,            \* getTpl in detail: its position
    types,            \* getTpl: the build configurations (sorted in place)
    tplIdx,           \* getTpl: configurations the loop has gone through
    projs,            \* getTpl: the Project list
    projIdxs,         \* getTpl: the map from project name to index in projs
    page,             \* getTpl: what tpl.Execute wrote for .Projects
    auth,             \* the -auth flag: the configured credential
    url,              \* getJSON in detail: its url argument
    req,              \* getJSON: the request it builds and sends
    jsonPc            \* getJSON: its position

coordVars == <<mainPc, refreshRequests, cycle, triggers, burst, prevBurst, late, ranSince>>
cacheVars == <<cacheMut, cacheData, pc, bs, err, resp>>
clockVars == <<cacheTime, now, refreshedAt>>
tplVars == <<tplPc, types, tplIdx, projs, projIdxs, page>>
jsonVars == <<auth, url, req, jsonPc>>
vars == <<coordVars, cacheVars, clockVars, tplVars, jsonVars>>

\* ------------------------------------------------- refresh-loop server

\* Positions inside getTpl (the aggregation pipeline).
TplPcs == {"getBuildTypes", "execute"}
InGetTpl(g) == pc[g] \in TplPcs

\* The worker is executing refreshCache (from the receive to the return).
InFlight == pc[Loop] \in {"lock", "getBuildTypes", "execute", "assign_ptr", "assign_len", "unlock"}

\* getTpl in detail (see SpecTpl) has not been entered.
TplInit ==
    /\ tplPc = "getBuildTypes"
    /\ types = <<>>
    /\ tplIdx = 0
    /\ projs = <<>>
    /\ projIdxs = [n \in {} |-> 0]
    /\ page = <<>>

\* No request has been built.
NoRequest == [URL |-> <<>>, Authorization |-> <<>>]

\* getJSON in detail (see SpecJSON) has not been entered.
JSONInit ==
    /\ url = <<>>
    /\ req = NoRequest
    /\ jsonPc = "idle"

Init ==
    /\ TplInit
    /\ JSONInit
    /\ auth = <<>>
    /\ mainPc = "spawn"
    /\ refreshRequests = 0
    /\ cacheMut = Unlocked
    /\ cacheData = NilSlice
    /\ cacheTime = 0
    /\ now = 0
    /\ refreshedAt = 0
    /\ pc = [g \in Goroutines |-> IF g = Loop THEN "unborn" ELSE "idle"]
    /\ bs = [g \in Goroutines |-> NilSlice]
    /\ err = [g \in Goroutines |-> ""]
    /\ resp = [g \in Readers |-> NoResponse]
    /\ cycle = 0
    /\ triggers = 0
    /\ burst = 0
    /\ prevBurst = 0
    /\ late = FALSE
    /\ ranSince = 0

\* main: go refreshLoop()
MainSpawn ==
    /\ mainPc = "spawn"
    /\ mainPc' = "send"
    /\ pc' = [pc EXCEPT ![Loop] = "recv"]
    /\ UNCHANGED <<refreshRequests, cycle, triggers, burst, prevBurst, late, ranSince>>
    /\ UNCHANGED <<cacheMut, cacheData, bs, err, resp>>
    /\ UNCHANGED clockVars
    /\ UNCHANGED <<tplVars, jsonVars>>

\* Mutant: main goes on to listen without the startup request.
MainNoSend ==
    /\ mainPc = "send"
    /\ mainPc' = "listen"
    /\ UNCHANGED <<refreshRequests, cycle, triggers, burst, prevBurst, late, ranSince>>
    /\ UNCHANGED cacheVars
    /\ UNCHANGED clockVars
    /\ UNCHANGED <<tplVars, jsonVars>>

\* main: refreshRequests <- struct{}{} (a blocking send)
MainSend ==
    /\ mainPc = "send"
    /\ refreshRequests < refreshRequestsCap
    /\ refreshRequests' = refreshRequests + 1
    /\ mainPc' = "listen"
    /\ UNCHANGED <<cycle, triggers, burst, prevBurst, late, ranSince>>
    /\ UNCHANGED cacheVars
    /\ UNCHANGED clockVars
    /\ UNCHANGED <<tplVars, jsonVars>>

\* main: http.ListenAndServe(listen, nil); the handlers run from here on
MainListen ==
    /\ mainPc = "listen"
    /\ mainPc' = "serving"
    /\ UNCHANGED <<refreshRequests, cycle, triggers, burst, prevBurst, late, ranSince>>
    /\ UNCHANGED cacheVars
    /\ UNCHANGED clockVars
    /\ UNCHANGED <<tplVars, jsonVars>>

\* Mutant: the handler appends to an unbounded queue.
refreshQueueAll(t) ==
    /\ mainPc = "serving"
    /\ pc[t] = "idle"
    /\ refreshRequests' = refreshRequests + 1
    /\ triggers' = triggers + 1
    /\ burst' = IF InFlight THEN burst + 1 ELSE burst
    /\ late' = TRUE
    /\ UNCHANGED <<mainPc, cycle, prevBurst, ranSince>>
    /\ UNCHANGED cacheVars
    /\ UNCHANGED clockVars
    /\ UNCHANGED <<tplVars, jsonVars>>

\* Mutant: the handler sends without a default case, and waits for room.
refreshBlocking(t) ==
    /\ mainPc = "serving"
    /\ pc[t] = "idle"
    /\ refreshRequests < refreshRequestsCap
    /\ refreshRequests' = refreshRequests + 1
    /\ triggers' = triggers + 1
    /\ burst' = IF InFlight THEN burst + 1 ELSE burst
    /\ late' = TRUE
    /\ UNCHANGED <<mainPc, cycle, prevBurst, ranSince>>
    /\ UNCHANGED cacheVars
    /\ UNCHANGED clockVars
    /\ UNCHANGED <<tplVars, jsonVars>>

\* Mutant: the handler drops its request when the worker is in flight.
refreshDropInFlight(t) ==
    /\ mainPc = "serving"
    /\ pc[t] = "idle"
    /\ refreshRequests' =
          IF refreshRequests < refreshRequestsCap /\ ~InFlight
          THEN refreshRequests + 1
          ELSE refreshRequests
    /\ triggers' = triggers + 1
    /\ burst' = IF InFlight THEN burst + 1 ELSE burst
    /\ late' = TRUE
    /\ UNCHANGED <<mainPc, cycle, prevBurst, ranSince>>
    /\ UNCHANGED cacheVars
    /\ UNCHANGED clockVars
    /\ UNCHANGED <<tplVars, jsonVars>>

\* Mutant: the handler runs the pipeline itself instead of asking the worker.
refreshInline(t) ==
    /\ mainPc = "serving"
    /\ pc[t] = "idle"
    /\ pc' = [pc EXCEPT ![t] = "getBuildTypes"]
    /\ triggers' = triggers + 1
    /\ burst' = IF InFlight THEN burst + 1 ELSE burst
    /\ late' = TRUE
    /\ UNCHANGED <<mainPc, refreshRequests, cycle, prevBurst, ranSince>>
    /\ UNCHANGED <<cacheMut, cacheData, bs, err, resp>>
    /\ UNCHANGED clockVars
    /\ UNCHANGED <<tplVars, jsonVars>>

\* refresh: select { case refreshRequests <- struct{}{}: default: }
refresh(t) ==
    /\ mainPc = "serving"
    /\ pc[t] = "idle"
    /\ refreshRequests' =
          IF refreshRequests < refreshRequestsCap
          THEN refreshRequests + 1
          ELSE refreshRequests
    /\ triggers' = triggers + 1
    /\ burst' = IF InFlight THEN burst + 1 ELSE burst
    /\ late' = TRUE
    /\ UNCHANGED <<mainPc, cycle, prevBurst, ranSince>>
    /\ UNCHANGED cacheVars
    /\ UNCHANGED clockVars
    /\ UNCHANGED <<tplVars, jsonVars>>

\* refreshLoop: for _ = range refreshRequests { -- one request is received
refreshLoopRecv(g) ==
    /\ pc[g] = "recv"
    /\ refreshRequests > 0
    /\ refreshRequests' = refreshRequests - 1
    /\ pc' = [pc EXCEPT ![g] = "lock"]
    /\ cycle' = cycle + 1
    /\ burst' = 0
    /\ ranSince' = ranSince + 1
    /\ UNCHANGED <<mainPc, triggers, prevBurst, late>>
    /\ UNCHANGED <<cacheMut, cacheData, bs, err, resp>>
    /\ UNCHANGED clockVars
    /\ UNCHANGED <<tplVars, jsonVars>>

\* refreshCache: cacheMut.Lock()
refreshCacheLock(g) ==
    /\ pc[g] = "lock"
    /\ cacheMut = Unlocked
    /\ cacheMut' = g
    /\ pc' = [pc EXCEPT ![g] = "getBuildTypes"]
    /\ UNCHANGED <<cacheData, bs, err, resp>>
    /\ UNCHANGED coordVars
    /\ UNCHANGED clockVars
    /\ UNCHANGED <<tplVars, jsonVars>>

\* getTpl: types, err := getBuildTypes(); on an error return nil and
\* errors.Wrap(err, "getTpl").  The call returns when the upstream answers:
\* a stalled upstream is this action not being taken.
getTplBuildTypes(g) ==
    /\ pc[g] = "getBuildTypes"
    /\ \E ok \in BOOLEAN :
          IF ok
          THEN /\ pc' = [pc EXCEPT ![g] = "execute"]
               /\ UNCHANGED <<bs, err>>
          ELSE /\ pc' = [pc EXCEPT ![g] = "assign_ptr"]
               /\ bs' = [bs EXCEPT ![g] = NilSlice]
               /\ err' = [err EXCEPT ![g] = "getTpl"]
    /\ UNCHANGED <<cacheMut, cacheData, resp>>
    /\ UNCHANGED coordVars
    /\ UNCHANGED clockVars
    /\ UNCHANGED <<tplVars, jsonVars>>

\* getTpl: the per-configuration fetches (their failures are absorbed) and
\* tpl.Execute; returns the buffer rendered by this execution, or nil and
\* errors.Wrap(err, "execute template").
getTplExecute(g) ==
    /\ pc[g] = "execute"
    /\ \E ok \in BOOLEAN :
          /\ bs' = [bs EXCEPT ![g] = IF ok THEN Page(cycle) ELSE NilSlice]
          /\ err' = [err EXCEPT ![g] = IF ok THEN "" ELSE "execute template"]
    /\ pc' = [pc EXCEPT ![g] = "assign_ptr"]
    /\ UNCHANGED <<cacheMut, cacheData, resp>>
    /\ UNCHANGED coordVars
    /\ UNCHANGED clockVars
    /\ UNCHANGED <<tplVars, jsonVars>>

\* refreshCache: cacheData = bs (first word; an error was only logged)
refreshCacheAssignPtr(g) ==
    /\ pc[g] = "assign_ptr"
    /\ cacheData' = [cacheData EXCEPT !.ptr = bs[g].ptr]
    /\ pc' = [pc EXCEPT ![g] = "assign_len"]
    /\ UNCHANGED <<cacheMut, bs, err, resp>>
    /\ UNCHANGED coordVars
    /\ UNCHANGED clockVars
    /\ UNCHANGED <<tplVars, jsonVars>>

\* refreshCache: cacheData = bs (second word)
refreshCacheAssignLen(g) ==
    /\ pc[g] = "assign_len"
    /\ cacheData' = [cacheData EXCEPT !.len = bs[g].len]
    /\ pc' = [pc EXCEPT ![g] = "unlock"]
    /\ UNCHANGED <<cacheMut, bs, err, resp>>
    /\ UNCHANGED coordVars
    /\ UNCHANGED clockVars
    /\ UNCHANGED <<tplVars, jsonVars>>

\* refreshCache: the deferred cacheMut.Unlock(), and the return to the loop
refreshCacheUnlock(g) ==
    /\ pc[g] = "unlock"
    /\ cacheMut' = Unlocked
    /\ pc' = [pc EXCEPT ![g] = "recv"]
    /\ bs' = [bs EXCEPT ![g] = NilSlice]
    /\ err' = [err EXCEPT ![g] = ""]
    /\ prevBurst' = burst
    /\ late' = FALSE
    /\ ranSince' = 0
    /\ refreshedAt' = now
    /\ UNCHANGED <<mainPc, refreshRequests, cycle, triggers, burst>>
    /\ UNCHANGED <<cacheData, resp>>
    /\ UNCHANGED <<cacheTime, now>>
    /\ UNCHANGED <<tplVars, jsonVars>>

\* The HTTP server starts handler in a goroutine of its own.
handlerBegin(r) ==
    /\ mainPc = "serving"
    /\ pc[r] = "idle"
    /\ pc' = [pc EXCEPT ![r] = "handler_lock"]
    /\ UNCHANGED <<cacheMut, cacheData, bs, err, resp>>
    /\ UNCHANGED coordVars
    /\ UNCHANGED clockVars
    /\ UNCHANGED <<tplVars, jsonVars>>

\* Mutant: the handler reads cacheData without taking cacheMut.
handlerNoLock(r) ==
    /\ pc[r] = "handler_lock"
    /\ pc' = [pc EXCEPT ![r] = "handler_read_ptr"]
    /\ UNCHANGED <<cacheMut, cacheData, bs, err, resp>>
    /\ UNCHANGED coordVars
    /\ UNCHANGED clockVars
    /\ UNCHANGED <<tplVars, jsonVars>>

\* handler: cacheMut.Lock()
handlerLock(r) ==
    /\ pc[r] = "handler_lock"
    /\ cacheMut = Unlocked
    /\ cacheMut' = r
    /\ pc' = [pc EXCEPT ![r] = "handler_read_ptr"]
    /\ UNCHANGED <<cacheData, bs, err, resp>>
    /\ UNCHANGED coordVars
    /\ UNCHANGED clockVars
    /\ UNCHANGED <<tplVars, jsonVars>>

\* handler: bs := cacheData (first word)
handlerReadPtr(r) ==
    /\ pc[r] = "handler_read_ptr"
    /\ bs' = [bs EXCEPT ![r].ptr = cacheData.ptr]
    /\ pc' = [pc EXCEPT ![r] = "handler_read_len"]
    /\ UNCHANGED <<cacheMut, cacheData, err, resp>>
    /\ UNCHANGED coordVars
    /\ UNCHANGED clockVars
    /\ UNCHANGED <<tplVars, jsonVars>>

\* handler: bs := cacheData (second word)
handlerReadLen(r) ==
    /\ pc[r] = "handler_read_len"
    /\ bs' = [bs EXCEPT ![r].len = cacheData.len]
    /\ pc' = [pc EXCEPT ![r] = "handler_unlock"]
    /\ UNCHANGED <<cacheMut, cacheData, err, resp>>
    /\ UNCHANGED coordVars
    /\ UNCHANGED clockVars
    /\ UNCHANGED <<tplVars, jsonVars>>

\* handler: cacheMut.Unlock()
handlerUnlock(r) ==
    /\ pc[r] = "handler_unlock"
    /\ cacheMut' = Unlocked
    /\ pc' = [pc EXCEPT ![r] = "handler_write"]
    /\ UNCHANGED <<cacheData, bs, err, resp>>
    /\ UNCHANGED coordVars
    /\ UNCHANGED clockVars
    /\ UNCHANGED <<tplVars, jsonVars>>

\* handler: w.Header().Set("Content-Type", ...); w.Write(bs)
handlerWrite(r) ==
    /\ pc[r] = "handler_write"
    /\ resp' = [resp EXCEPT ![r] = [status |-> StatusOK, ctype |-> HtmlType, body |-> bs[r]]]
    /\ bs' = [bs EXCEPT ![r] = NilSlice]
    /\ pc' = [pc EXCEPT ![r] = "idle"]
    /\ UNCHANGED <<cacheMut, cacheData, err>>
    /\ UNCHANGED coordVars
    /\ UNCHANGED clockVars
    /\ UNCHANGED <<tplVars, jsonVars>>

Next ==
    \/ MainSpawn
    \/ MainSend
    \/ MainListen
    \/ (triggers < MaxTriggers /\ \E t \in Triggers : refresh(t))
    \/ \E g \in Goroutines : refreshLoopRecv(g)
    \/ \E g \in Goroutines : refreshCacheLock(g)
    \/ \E g \in Goroutines : getTplBuildTypes(g)
    \/ \E g \in Goroutines : getTplExecute(g)
    \/ \E g \in Goroutines : refreshCacheAssignPtr(g)
    \/ \E g \in Goroutines : refreshCacheAssignLen(g)
    \/ \E g \in Goroutines : refreshCacheUnlock(g)
    \/ \E r \in Readers : handlerBegin(r)
    \/ \E r \in Readers : handlerLock(r)
    \/ \E r \in Readers : handlerReadPtr(r)
    \/ \E r \in Readers : handlerReadLen(r)
    \/ \E r \in Readers : handlerUnlock(r)
    \/ \E r \in Readers : handlerWrite(r)

Spec == Init /\ [][Next]_vars

\* The scheduling the Go runtime and the claims' assumptions give: main and
\* the worker keep running, every upstream call returns, a handler that was
\* started runs on once it has the mutex, and the worker waiting in Lock
\* gets the mutex (sync.Mutex hands it to a starving waiter).  No request
\* has to arrive.
LoopStep ==
    \/ refreshLoopRecv(Loop)
    \/ getTplBuildTypes(Loop)
    \/ getTplExecute(Loop)
    \/ refreshCacheAssignPtr(Loop)
    \/ refreshCacheAssignLen(Loop)
    \/ refreshCacheUnlock(Loop)

ReaderStep(r) ==
    \/ handlerReadPtr(r)
    \/ handlerReadLen(r)
    \/ handlerUnlock(r)
    \/ handlerWrite(r)

MainStep == MainSpawn \/ MainSend \/ MainListen

FairSpec ==
    /\ Spec
    /\ WF_vars(MainStep)
    /\ WF_vars(LoopStep)
    /\ SF_vars(refreshCacheLock(Loop))
    /\ \A r \in Readers : WF_vars(ReaderStep(r))

\* ------------------------------------------------------------ claims

\* Some trigger handler runs (one whole call of refresh).
TriggerStep == \E t \in Triggers : refresh(t)

\* C1: once the server serves, a call of the refresh handler is enabled in
\* every state (it never waits, whatever the worker is doing), the channel
\* never holds more than one request, and a call that finds the channel full
\* leaves it as it is.
C1_TriggerNeverBlocksSlotAtMostOne ==
    /\ [](refreshRequests <= 1)
    /\ [](mainPc = "serving" => \A t \in Triggers : ENABLED refresh(t))
    /\ [][TriggerStep /\ refreshRequests = 1 => refreshRequests' = 1]_vars

\* C1 witness: the worker is stalled on the listing call, the channel is
\* full, and a second trigger has been handled (and dropped) meanwhile.
C1_Witness ==
    /\ pc[Loop] = "getBuildTypes"
    /\ refreshRequests = 1
    /\ burst >= 2

\* C2: if N >= 1 triggers were handled during the execution that ended last
\* and none since, then exactly one execution has started since or is
\* pending in the channel (never none, never more than one).
C2_BurstGivesExactlyOneMore ==
    (prevBurst >= 1 /\ ~late) => (ranSince + refreshRequests = 1)

\* C2 witness: two triggers during one execution, none after it, and the
\* one further execution has started and emptied the channel.
C2_Witness ==
    /\ prevBurst >= 2
    /\ ~late
    /\ ranSince = 1
    /\ refreshRequests = 0

\* C3 as stated: a trigger handled while a request is pending or while the
\* worker is in flight leaves the channel (the executions still to run)
\* unchanged.
C3_TriggerNoOpWhenPendingOrInFlight ==
    [][TriggerStep /\ (refreshRequests >= 1 \/ InFlight)
          => refreshRequests' = refreshRequests]_vars

\* C3 amended: a trigger handled while a request is pending leaves the
\* channel unchanged; a trigger handled while the channel is empty (the
\* worker in flight or not) puts exactly one request into it; in both cases
\* the worker, the mutex and the snapshot are left as they are.
C3_TriggerNoOpWhenPending ==
    [][TriggerStep =>
          /\ refreshRequests' = (IF refreshRequests >= 1 THEN refreshRequests ELSE 1)
          /\ UNCHANGED <<cacheVars, cycle>>]_vars

\* C3 witness: during one execution a first trigger filled the channel and
\* a second one found it full.
C3_Witness ==
    /\ InFlight
    /\ burst >= 2
    /\ refreshRequests = 1
    /\ \E r \in Readers : resp[r].status = StatusOK

\* C4: at most one goroutine is inside getTpl.
C4_AtMostOneGetTpl ==
    Cardinality({g \in Goroutines : InGetTpl(g)}) <= 1

\* C4 witness: the worker is inside getTpl for the second time, a request
\* is pending and a reader has arrived.
C4_Witness ==
    /\ InGetTpl(Loop)
    /\ cycle >= 2
    /\ refreshRequests = 1
    /\ \E r \in Readers : pc[r] = "handler_lock"

\* C5 as stated: once getTpl has failed on the listing call, the rest of the
\* cycle leaves cacheData as it was.
C5_FailedCycleKeepsSnapshot ==
    [][err[Loop] = "getTpl" => cacheData' = cacheData]_vars

\* C6 as stated: no goroutine holds cacheMut while it is inside getTpl, and
\* a reader waiting for cacheMut while the worker is inside getTpl can take
\* it unless another reader holds it.
C6_LockNotHeldDuringPipeline ==
    /\ \A g \in Goroutines : InGetTpl(g) => cacheMut # g
    /\ \A r \in Readers :
          (InGetTpl(Loop) /\ pc[r] = "handler_lock" /\ cacheMut \notin Readers)
             => ENABLED handlerLock(r)

\* What a reader has obtained from the cache: its local bs once both words
\* are read, and the body it wrote.
Obtained(r) ==
    (IF pc[r] \in {"handler_unlock", "handler_write"} THEN {bs[r]} ELSE {})
       \cup (IF resp[r].status = StatusOK THEN {resp[r].body} ELSE {})

\* getTpl of execution k has returned.
Finished(k) ==
    /\ k \in 1..cycle
    /\ (k = cycle => pc[Loop] \in {"assign_ptr", "assign_len", "unlock", "recv"})

\* C7: every value a reader obtained is nil (the initial value) or the
\* whole buffer of one execution whose getTpl has returned; never a header
\* whose words come from two values.
C7_ReadersSeeWholeSnapshots ==
    \A r \in Readers : \A b \in Obtained(r) :
        \/ b = NilSlice
        \/ \E k \in 1..cycle : b = Page(k) /\ Finished(k)

\* C7 witness: a reader that was answered with the first execution's page
\* has now read the second execution's page.
C7_Witness ==
    \E r \in Readers :
        /\ resp[r].status = StatusOK
        /\ resp[r].body = Page(1)
        /\ pc[r] = "handler_write"
        /\ bs[r] = Page(2)

\* C8: under FairSpec, a trigger handled during an execution is followed by
\* a later execution in flight (burst falls back to 0 only when the worker
\* receives the next request and starts the next execution, after the one
\* in flight has ended); and a trigger changes neither the worker's position
\* nor its locals (the execution in flight goes on).
C8_TriggerMidRefreshLeadsToAnotherRun ==
    /\ (InFlight /\ burst >= 1) ~> (InFlight /\ burst = 0 /\ prevBurst >= 1)
    /\ [][burst >= 1 /\ burst' = 0 =>
             pc[Loop] = "recv" /\ pc'[Loop] = "lock" /\ cycle' = cycle + 1]_vars
    /\ [][TriggerStep => pc'[Loop] = pc[Loop] /\ bs'[Loop] = bs[Loop]
                           /\ err'[Loop] = err[Loop]]_vars

\* C8 witness: an execution that started after a trigger was handled during
\* the one before it.
C8_Witness ==
    /\ prevBurst >= 1
    /\ ranSince = 1
    /\ InFlight
    /\ cycle >= 2

\* ------------------------------------------------ cache-lifetime server
\* main only registers handler and serves.  handler refreshes inline, under
\* cacheMut, when cacheData is nil or older than maxCacheTime.

InitV1 ==
    /\ TplInit
    /\ JSONInit
    /\ auth = <<>>
    /\ mainPc = "serving"
    /\ refreshRequests = 0
    /\ cacheMut = Unlocked
    /\ cacheData = NilSlice
    /\ cacheTime = ZeroTime
    /\ now = 0
    /\ refreshedAt = 0
    /\ pc = [g \in Goroutines |-> IF g = Loop THEN "unborn" ELSE "idle"]
    /\ bs = [g \in Goroutines |-> NilSlice]
    /\ err = [g \in Goroutines |-> ""]
    /\ resp = [g \in Readers |-> NoResponse]
    /\ cycle = 0
    /\ triggers = 0
    /\ burst = 0
    /\ prevBurst = 0
    /\ late = FALSE
    /\ ranSince = 0

\* The clock advances by one unit.
Tick ==
    /\ now < MaxNow
    /\ now' = now + 1
    /\ UNCHANGED <<cacheTime, refreshedAt>>
    /\ UNCHANGED cacheVars
    /\ UNCHANGED coordVars
    /\ UNCHANGED <<tplVars, jsonVars>>

\* The refresh-loop server with the clock running: no action of the server
\* reads the clock or waits for it.
TimedNext == Next \/ Tick

TimedSpec == Init /\ [][TimedNext]_vars

FairTimedSpec ==
    /\ TimedSpec
    /\ WF_vars(Tick)
    /\ WF_vars(MainStep)
    /\ WF_vars(LoopStep)
    /\ SF_vars(refreshCacheLock(Loop))
    /\ \A r \in Readers : WF_vars(ReaderStep(r))

\* The HTTP server starts handler in a goroutine of its own.
cacheHandlerBegin(r) ==
    /\ pc[r] = "idle"
    /\ pc' = [pc EXCEPT ![r] = "v1_lock"]
    /\ UNCHANGED <<cacheMut, cacheData, bs, err, resp>>
    /\ UNCHANGED coordVars
    /\ UNCHANGED clockVars
    /\ UNCHANGED <<tplVars, jsonVars>>

\* handler: cacheMut.Lock()
cacheHandlerLock(r) ==
    /\ pc[r] = "v1_lock"
    /\ cacheMut = Unlocked
    /\ cacheMut' = r
    /\ pc' = [pc EXCEPT ![r] = "v1_check"]
    /\ UNCHANGED <<cacheData, bs, err, resp>>
    /\ UNCHANGED coordVars
    /\ UNCHANGED clockVars
    /\ UNCHANGED <<tplVars, jsonVars>>

\* handler: if cacheData == nil || time.Since(cacheTime) > maxCacheTime
cacheHandlerCheck(r) ==
    /\ pc[r] = "v1_check"
    /\ pc' = [pc EXCEPT ![r] =
                 IF cacheData = NilSlice \/ now - cacheTime > maxCacheTime
                 THEN "v1_getTpl"
                 ELSE "v1_use"]
    /\ UNCHANGED <<cacheMut, cacheData, bs, err, resp>>
    /\ UNCHANGED coordVars
    /\ UNCHANGED clockVars
    /\ UNCHANGED <<tplVars, jsonVars>>

\* handler: bs, err := getTpl() -- the listing call or the template fails,
\* or the page of this refresh is rendered
cacheHandlerGetTpl(r) ==
    /\ pc[r] = "v1_getTpl"
    /\ \E outcome \in {"ok", "get build types", "execute template"} :
          IF outcome = "ok"
          THEN /\ bs' = [bs EXCEPT ![r] = Page(cycle + 1)]
               /\ err' = [err EXCEPT ![r] = ""]
               /\ cycle' = cycle + 1
               /\ pc' = [pc EXCEPT ![r] = "v1_store_data"]
          ELSE /\ bs' = [bs EXCEPT ![r] = NilSlice]
               /\ err' = [err EXCEPT ![r] = outcome]
               /\ cycle' = cycle
               /\ pc' = [pc EXCEPT ![r] = "v1_error"]
    /\ UNCHANGED <<cacheMut, cacheData, resp>>
    /\ UNCHANGED <<mainPc, refreshRequests, triggers, burst, prevBurst, late, ranSince>>
    /\ UNCHANGED clockVars
    /\ UNCHANGED <<tplVars, jsonVars>>

\* handler: http.Error(w, err.Error(), http.StatusInternalServerError)
cacheHandlerError(r) ==
    /\ pc[r] = "v1_error"
    /\ resp' = [resp EXCEPT ![r] =
                   [status |-> StatusInternalServerError, ctype |-> TextType,
                    body |-> ErrorText]]
    /\ pc' = [pc EXCEPT ![r] = "v1_error_unlock"]
    /\ UNCHANGED <<cacheMut, cacheData, bs, err>>
    /\ UNCHANGED coordVars
    /\ UNCHANGED clockVars
    /\ UNCHANGED <<tplVars, jsonVars>>

\* Mutant: the error path returns without cacheMut.Unlock().
cacheHandlerErrorReturn(r) ==
    /\ pc[r] = "v1_error_unlock"
    /\ bs' = [bs EXCEPT ![r] = NilSlice]
    /\ err' = [err EXCEPT ![r] = ""]
    /\ pc' = [pc EXCEPT ![r] = "idle"]
    /\ UNCHANGED <<cacheMut, cacheData, resp>>
    /\ UNCHANGED coordVars
    /\ UNCHANGED clockVars
    /\ UNCHANGED <<tplVars, jsonVars>>

\* handler: cacheMut.Unlock(); return
cacheHandlerErrorUnlock(r) ==
    /\ pc[r] = "v1_error_unlock"
    /\ cacheMut' = Unlocked
    /\ bs' = [bs EXCEPT ![r] = NilSlice]
    /\ err' = [err EXCEPT ![r] = ""]
    /\ pc' = [pc EXCEPT ![r] = "idle"]
    /\ UNCHANGED <<cacheData, resp>>
    /\ UNCHANGED coordVars
    /\ UNCHANGED clockVars
    /\ UNCHANGED <<tplVars, jsonVars>>

\* handler: cacheData = bs
cacheHandlerStoreData(r) ==
    /\ pc[r] = "v1_store_data"
    /\ cacheData' = bs[r]
    /\ pc' = [pc EXCEPT ![r] = "v1_store_time"]
    /\ UNCHANGED <<cacheMut, bs, err, resp>>
    /\ UNCHANGED coordVars
    /\ UNCHANGED clockVars
    /\ UNCHANGED <<tplVars, jsonVars>>

\* handler: cacheTime = time.Now()
cacheHandlerStoreTime(r) ==
    /\ pc[r] = "v1_store_time"
    /\ cacheTime' = now
    /\ UNCHANGED refreshedAt
    /\ pc' = [pc EXCEPT ![r] = "v1_use"]
    /\ UNCHANGED now
    /\ UNCHANGED <<cacheMut, cacheData, bs, err, resp>>
    /\ UNCHANGED coordVars
    /\ UNCHANGED <<tplVars, jsonVars>>

\* handler: bs := cacheData
cacheHandlerUse(r) ==
    /\ pc[r] = "v1_use"
    /\ bs' = [bs EXCEPT ![r] = cacheData]
    /\ pc' = [pc EXCEPT ![r] = "v1_unlock"]
    /\ UNCHANGED <<cacheMut, cacheData, err, resp>>
    /\ UNCHANGED coordVars
    /\ UNCHANGED clockVars
    /\ UNCHANGED <<tplVars, jsonVars>>

\* handler: cacheMut.Unlock()
cacheHandlerUnlock(r) ==
    /\ pc[r] = "v1_unlock"
    /\ cacheMut' = Unlocked
    /\ pc' = [pc EXCEPT ![r] = "v1_write"]
    /\ UNCHANGED <<cacheData, bs, err, resp>>
    /\ UNCHANGED coordVars
    /\ UNCHANGED clockVars
    /\ UNCHANGED <<tplVars, jsonVars>>

\* handler: w.Header().Set("Content-Type", ...); w.Write(bs)
cacheHandlerWrite(r) ==
    /\ pc[r] = "v1_write"
    /\ resp' = [resp EXCEPT ![r] = [status |-> StatusOK, ctype |-> HtmlType, body |-> bs[r]]]
    /\ bs' = [bs EXCEPT ![r] = NilSlice]
    /\ pc' = [pc EXCEPT ![r] = "idle"]
    /\ UNCHANGED <<cacheMut, cacheData, err>>
    /\ UNCHANGED coordVars
    /\ UNCHANGED clockVars
    /\ UNCHANGED <<tplVars, jsonVars>>

NextV1 ==
    \/ Tick
    \/ \E r \in Readers : cacheHandlerBegin(r)
    \/ \E r \in Readers : cacheHandlerLock(r)
    \/ \E r \in Readers : cacheHandlerCheck(r)
    \/ \E r \in Readers : cacheHandlerGetTpl(r)
    \/ \E r \in Readers : cacheHandlerError(r)
    \/ \E r \in Readers : cacheHandlerErrorUnlock(r)
    \/ \E r \in Readers : cacheHandlerStoreData(r)
    \/ \E r \in Readers : cacheHandlerStoreTime(r)
    \/ \E r \in Readers : cacheHandlerUse(r)
    \/ \E r \in Readers : cacheHandlerUnlock(r)
    \/ \E r \in Readers : cacheHandlerWrite(r)

SpecV1 == InitV1 /\ [][NextV1]_vars

\* C9 as stated: every response a read handler has written is a 200 with
\* the text/html content type and cached bytes (nil or a rendered page) as
\* its body; never a server error.
C9_ReaderNeverGetsServerError ==
    \A r \in Readers :
        resp[r] # NoResponse =>
            /\ resp[r].status = StatusOK
            /\ resp[r].ctype = HtmlType
            /\ resp[r].body = NilSlice \/ \E k \in 1..cycle : resp[r].body = Page(k)

\* The cache holds a page no older than maxCacheTime.
Fresh == cacheData # NilSlice /\ now - cacheTime <= maxCacheTime

\* C19: in the cache-lifetime handler a failed refresh leaves cacheData and
\* cacheTime as they were; a handler that has returned, or has got to
\* writing its response, does not hold cacheMut; and a handler that finds a
\* fresh cache goes on without calling getTpl and takes the cached bytes,
\* which are what it writes.
C19_CacheLifetimeHandler ==
    /\ [][\A r \in Readers :
            (cacheHandlerGetTpl(r) /\ err'[r] # "") \/ cacheHandlerError(r)
              \/ cacheHandlerErrorUnlock(r)
                => (cacheData' = cacheData /\ cacheTime' = cacheTime)]_vars
    /\ [](\A r \in Readers : pc[r] \in {"idle", "v1_lock", "v1_write"} => cacheMut # r)
    /\ [][\A r \in Readers :
            (cacheHandlerCheck(r) /\ Fresh) =>
                (pc'[r] = "v1_use" /\ cycle' = cycle)]_vars
    /\ [][\A r \in Readers :
            cacheHandlerUse(r) => (bs'[r] = cacheData /\ cacheData' = cacheData)]_vars
    /\ [][\A r \in Readers :
            cacheHandlerWrite(r) =>
                resp'[r] = [status |-> StatusOK, ctype |-> HtmlType, body |-> bs[r]]]_vars

\* C19 witness: a refresh of an expired cache has failed and its handler
\* has returned: the reader got the error, the lock is free, and the cache
\* still holds the first page and its time.
C19_Witness ==
    /\ cacheData = Page(1)
    /\ cacheTime >= 0
    /\ now - cacheTime > maxCacheTime
    /\ cacheMut = Unlocked
    /\ \E r \in Readers :
          /\ pc[r] = "idle"
          /\ resp[r].status = StatusInternalServerError

\* --------------------------------------------------- getTpl in detail
\* One call of getTpl, with the upstream's answers as inputs.  A string is
\* the sequence of its bytes; Go compares strings byte by byte.

\* "a", "ab"
ProjectNames == {<<97>>, <<97, 98>>}
\* "x", "y"
ConfigNames == {<<120>>, <<121>>}

\* The lists the listing call can return: configuration i has ID i.
BuildTypeLists ==
    UNION {
        {[i \in 1..n |-> [ID |-> i, Name |-> f[i][2], ProjectName |-> f[i][1]]] :
            f \in [1..n -> ProjectNames \X ConfigNames]} :
        n \in 0..MaxTypes}

\* What the per-configuration calls can come to: a build with its files, or
\* the error getLatestBuild or getFiles returns ("no build found" when the
\* lookup returns no build or more than one).
Outcomes ==
    {"ok", "get latest build", "no build found", "get latest build details", "get files"}

\* getLatestBuild: the lookup call fails, or its answer does not hold exactly
\* one build, or the call for the build's details fails; else the build.
getLatestBuild(lookupOk, nbuilds, detailOk) ==
    IF ~lookupOk THEN "get latest build"
    ELSE IF nbuilds # 1 THEN "no build found"
    ELSE IF ~detailOk THEN "get latest build details"
    ELSE "ok"

\* getFiles: the artifact listing call fails, or the files are returned.
getFiles(filesOk) == IF filesOk THEN "ok" ELSE "get files"

\* What upstream can answer to the calls of one iteration.
Answers ==
    [lookupOk : BOOLEAN, nbuilds : 0..MaxBuilds, detailOk : BOOLEAN,
     filesOk : BOOLEAN, nfiles : 0..MaxFiles]

\* What one iteration's calls come to under answer a: getFiles is called
\* only after getLatestBuild returned a build.
IterOutcome(a) ==
    LET e == getLatestBuild(a.lookupOk, a.nbuilds, a.detailOk)
    IN IF e # "ok" THEN e ELSE getFiles(a.filesOk)

\* Go's a < b on strings.
RECURSIVE StrLess(_, _)
StrLess(a, b) ==
    IF b = <<>> THEN FALSE
    ELSE IF a = <<>> THEN TRUE
    ELSE IF a[1] # b[1] THEN a[1] < b[1]
    ELSE StrLess(Tail(a), Tail(b))

\* The less function getTpl gives sort.Slice.
TypeLess(x, y) ==
    IF x.ProjectName # y.ProjectName
    THEN StrLess(x.ProjectName, y.ProjectName)
    ELSE StrLess(x.Name, y.Name)

\* sort.Slice is not stable: any ordered permutation of ts can result.
SortSlice(ts) ==
    LET n == Len(ts)
        perms == {p \in [1..n -> 1..n] : \A i, j \in 1..n : i # j => p[i] # p[j]}
    IN {[i \in 1..n |-> ts[p[i]]] : p \in
           {q \in perms : \A i, j \in 1..n : i < j => ~TypeLess(ts[q[j]], ts[q[i]])}}

InitTpl ==
    /\ TplInit
    /\ JSONInit
    /\ auth = <<>>
    /\ mainPc = "serving"
    /\ refreshRequests = 0
    /\ cacheMut = Unlocked
    /\ cacheData = NilSlice
    /\ cacheTime = 0
    /\ now = 0
    /\ refreshedAt = 0
    /\ pc = [g \in Goroutines |-> IF g = Loop THEN "unborn" ELSE "idle"]
    /\ bs = [g \in Goroutines |-> NilSlice]
    /\ err = [g \in Goroutines |-> ""]
    /\ resp = [g \in Readers |-> NoResponse]
    /\ cycle = 0
    /\ triggers = 0
    /\ burst = 0
    /\ prevBurst = 0
    /\ late = FALSE
    /\ ranSince = 0

\* getTpl: types, err := getBuildTypes(); on an error return nil, err
getTplGetBuildTypes ==
    /\ tplPc = "getBuildTypes"
    /\ \/ /\ \E ts \in BuildTypeLists : types' = ts
          /\ tplPc' = "sort"
       \/ /\ types' = types
          /\ tplPc' = "failed"
    /\ UNCHANGED <<tplIdx, projs, projIdxs, page>>
    /\ UNCHANGED <<coordVars, cacheVars, clockVars, jsonVars>>

\* Mutant: getTpl does not sort the configurations.
getTplNoSort ==
    /\ tplPc = "sort"
    /\ tplPc' = "loop"
    /\ UNCHANGED <<types, tplIdx, projs, projIdxs, page>>
    /\ UNCHANGED <<coordVars, cacheVars, clockVars, jsonVars>>

\* getTpl: sort.Slice(types, ...) by (ProjectName, Name)
getTplSort ==
    /\ tplPc = "sort"
    /\ \E sorted \in SortSlice(types) : types' = sorted
    /\ tplPc' = "loop"
    /\ UNCHANGED <<tplIdx, projs, projIdxs, page>>
    /\ UNCHANGED <<coordVars, cacheVars, clockVars, jsonVars>>

\* Mutant: an error of getLatestBuild or getFiles is returned from getTpl
\* instead of skipping the configuration.
getTplIterAbort(outcome, nfiles) ==
    /\ tplPc = "loop"
    /\ tplIdx < Len(types)
    /\ LET bt == types[tplIdx + 1]
           ok == bt.ProjectName \in DOMAIN projIdxs
           idx == IF ok THEN projIdxs[bt.ProjectName] ELSE Len(projs)
           projs1 == IF ok THEN projs
                     ELSE Append(projs, [Name |-> bt.ProjectName, Builds |-> <<>>])
           built == [ID |-> bt.ID, Name |-> bt.Name, ProjectName |-> bt.ProjectName,
                     Files |-> nfiles]
       IN /\ projIdxs' = IF ok THEN projIdxs
                         ELSE [n \in DOMAIN projIdxs \cup {bt.ProjectName} |->
                                  IF n = bt.ProjectName THEN idx ELSE projIdxs[n]]
          /\ projs' = IF outcome = "ok"
                      THEN [projs1 EXCEPT ![idx + 1].Builds = Append(@, built)]
                      ELSE projs1
    /\ tplIdx' = tplIdx + 1
    /\ tplPc' = IF outcome = "ok" THEN tplPc ELSE "failed"
    /\ UNCHANGED <<types, page>>
    /\ UNCHANGED <<coordVars, cacheVars, clockVars, jsonVars>>

\* Mutant: the Project is created only when a build is attached to it.
getTplIterLate(outcome, nfiles) ==
    /\ tplPc = "loop"
    /\ tplIdx < Len(types)
    /\ LET bt == types[tplIdx + 1]
           ok == bt.ProjectName \in DOMAIN projIdxs
           idx == IF ok THEN projIdxs[bt.ProjectName] ELSE Len(projs)
           projs1 == IF ok THEN projs
                     ELSE Append(projs, [Name |-> bt.ProjectName, Builds |-> <<>>])
           built == [ID |-> bt.ID, Name |-> bt.Name, ProjectName |-> bt.ProjectName,
                     Files |-> nfiles]
       IN /\ projIdxs' = IF ok \/ outcome # "ok" THEN projIdxs
                         ELSE [n \in DOMAIN projIdxs \cup {bt.ProjectName} |->
                                  IF n = bt.ProjectName THEN idx ELSE projIdxs[n]]
          /\ projs' = IF outcome = "ok"
                      THEN [projs1 EXCEPT ![idx + 1].Builds = Append(@, built)]
                      ELSE projs
    /\ tplIdx' = tplIdx + 1
    /\ UNCHANGED <<tplPc, types, page>>
    /\ UNCHANGED <<coordVars, cacheVars, clockVars, jsonVars>>

\* getTpl: one iteration of for _, bt := range types.  The Project is looked
\* up or created first; then the build and its files are fetched, and only
\* when both calls succeed is bt appended to the Project's Builds.
getTplIter(outcome, nfiles) ==
    /\ tplPc = "loop"
    /\ tplIdx < Len(types)
    /\ LET bt == types[tplIdx + 1]
           ok == bt.ProjectName \in DOMAIN projIdxs
           idx == IF ok THEN projIdxs[bt.ProjectName] ELSE Len(projs)
           projs1 == IF ok THEN projs
                     ELSE Append(projs, [Name |-> bt.ProjectName, Builds |-> <<>>])
           built == [ID |-> bt.ID, Name |-> bt.Name, ProjectName |-> bt.ProjectName,
                     Files |-> nfiles]
       IN /\ projIdxs' = IF ok THEN projIdxs
                         ELSE [n \in DOMAIN projIdxs \cup {bt.ProjectName} |->
                                  IF n = bt.ProjectName THEN idx ELSE projIdxs[n]]
          /\ projs' = IF outcome = "ok"
                      THEN [projs1 EXCEPT ![idx + 1].Builds = Append(@, built)]
                      ELSE projs1
    /\ tplIdx' = tplIdx + 1
    /\ UNCHANGED <<tplPc, types, page>>
    /\ UNCHANGED <<coordVars, cacheVars, clockVars, jsonVars>>

\* {{if .Build.Files}}: a build is shown when its file list is not empty.
HasFiles(b) == b.Files > 0

\* {{if $proj.Builds}}: a Project is shown when its Builds are not empty.
HasBuilds(p) == p.Builds # <<>>

\* The inline template's {{range $idx, $proj := .Projects}}: for each shown
\* Project its <h2> name, and under it the entries of its shown builds.
tplExecute(ps) ==
    LET shown == SelectSeq(ps, HasBuilds)
    IN [i \in 1..Len(shown) |->
           [Name |-> shown[i].Name, Entries |-> SelectSeq(shown[i].Builds, HasFiles)]]

\* getTpl: the loop is over; tpl.Execute(buf, data) renders the page, and
\* its error makes getTpl return nil, err.
getTplRender ==
    /\ tplPc = "loop"
    /\ tplIdx = Len(types)
    /\ \/ /\ tplPc' = "done"
          /\ page' = tplExecute(projs)
       \/ /\ tplPc' = "failed"
          /\ page' = page
    /\ UNCHANGED <<types, tplIdx, projs, projIdxs>>
    /\ UNCHANGED <<coordVars, cacheVars, clockVars, jsonVars>>

NextTpl ==
    \/ getTplGetBuildTypes
    \/ getTplSort
    \/ \E outcome \in {IterOutcome(a) : a \in Answers} :
          \E nfiles \in 0..MaxFiles : getTplIter(outcome, nfiles)
    \/ getTplRender

SpecTpl == InitTpl /\ [][NextTpl]_vars

\* The index of the first configuration of project name in types.
FirstOccurrence(name) ==
    CHOOSE i \in 1..Len(types) :
        /\ types[i].ProjectName = name
        /\ \A j \in 1..(i - 1) : types[j].ProjectName # name

\* C10: once the loop is over, projs has exactly one Project for each
\* projectName among the configurations, in strictly ascending name order,
\* which is the order of the names' first occurrences in the sorted list;
\* each Project's Builds are in ascending Name order and carry the Project's
\* name.
C10_ProjectsGroupedAndOrdered ==
    (tplPc \in {"loop", "done"} /\ tplIdx = Len(types)) =>
        /\ {projs[i].Name : i \in 1..Len(projs)} = {types[k].ProjectName : k \in 1..Len(types)}
        /\ \A i, j \in 1..Len(projs) :
              i < j => /\ StrLess(projs[i].Name, projs[j].Name)
                       /\ FirstOccurrence(projs[i].Name) < FirstOccurrence(projs[j].Name)
        /\ \A i \in 1..Len(projs) :
              LET builds == projs[i].Builds
              IN /\ \A a \in 1..Len(builds) : builds[a].ProjectName = projs[i].Name
                 /\ \A a, b \in 1..Len(builds) :
                       a < b => ~StrLess(builds[b].Name, builds[a].Name)

\* C10 witness: a list that came back out of order (the configuration with
\* the larger ID sorts first) has been grouped into two Projects, one of
\* them with two configurations attached.
C10_Witness ==
    /\ tplPc = "done"
    /\ Len(projs) >= 2
    /\ \E i \in 1..Len(projs) : Len(projs[i].Builds) >= 2
    /\ \E i, j \in 1..Len(types) : i < j /\ types[i].ID > types[j].ID

\* The IDs of the configurations attached to some Project of ps.
AttachedIDs(ps) ==
    {ps[i].Builds[k].ID : <<i, k>> \in
        UNION {{<<i, k>> : k \in 1..Len(ps[i].Builds)} : i \in 1..Len(ps)}}

\* Answer a is a failure for its configuration: the lookup fails or returns
\* no build or two or more, the detail call fails, or the listing fails.
FailedAnswer(a) ==
    \/ ~a.lookupOk
    \/ a.nbuilds = 0
    \/ a.nbuilds >= 2
    \/ ~a.detailOk
    \/ ~a.filesOk

\* The outcomes of one iteration under the failed answers, and under the
\* others.
FailedOutcomes == {IterOutcome(a) : a \in {x \in Answers : FailedAnswer(x)}}
GoodOutcomes == {IterOutcome(a) : a \in {x \in Answers : ~FailedAnswer(x)}}

\* C11: an iteration whose calls fail skips exactly its configuration: the
\* Builds of every Project stay as they were (at most a Project without
\* Builds is added), the loop goes on with the next configuration, and
\* getTpl fails only in the listing call or in rendering, never in the loop;
\* an iteration whose calls succeed attaches its configuration.
C11_FailedConfigurationIsSkipped ==
    /\ [][(\E o \in FailedOutcomes : \E n \in 0..MaxFiles : getTplIter(o, n)) =>
            /\ AttachedIDs(projs') = AttachedIDs(projs)
            /\ \A i \in 1..Len(projs) : projs'[i] = projs[i]
            /\ \A i \in (Len(projs) + 1)..Len(projs') : projs'[i].Builds = <<>>
            /\ tplIdx' = tplIdx + 1
            /\ tplPc' = "loop"
            /\ types' = types]_vars
    /\ [](tplPc = "failed" => (tplIdx = 0 \/ tplIdx = Len(types)))
    /\ [][(\E o \in GoodOutcomes : \E n \in 0..MaxFiles : getTplIter(o, n)) =>
            AttachedIDs(projs') = AttachedIDs(projs) \cup {types[tplIdx + 1].ID}]_vars

\* C11 witness: the page was rendered from a list whose first configuration
\* was skipped and whose later configurations were attached.
C11_Witness ==
    /\ tplPc = "done"
    /\ Len(types) >= 3
    /\ types[1].ID \notin AttachedIDs(projs)
    /\ \A k \in 2..Len(types) : types[k].ID \in AttachedIDs(projs)

\* project.TotalFiles: the sum of len(b.Build.Files) over the Builds.
RECURSIVE SumFiles(_)
SumFiles(builds) ==
    IF builds = <<>> THEN 0 ELSE Head(builds).Files + SumFiles(Tail(builds))

TotalFiles(p) == SumFiles(p.Builds)

\* C12: a Project is on the rendered page only if one of its attached builds
\* has a file: every Project with a section on the page has TotalFiles > 0.
C12_RenderedProjectsHaveFiles ==
    tplPc = "done" =>
        \A i \in 1..Len(projs) :
            (\E s \in 1..Len(page) : page[s].Name = projs[i].Name) =>
                TotalFiles(projs[i]) > 0

\* More than the cache lifetime has passed since the refresh worker last
\* finished.
Expired == now - refreshedAt > maxCacheTimeLoop

\* C13: the cache is refreshed on a timer: whenever the worker is waiting
\* and the cache lifetime has passed since the last refresh, a refresh
\* execution eventually runs, whether or not a trigger request arrives.
C13_ExpiredCacheIsRefreshed ==
    (pc[Loop] = "recv" /\ Expired) ~> InFlight

\* A step of a read handler of the refresh-loop server.
HandlerStep ==
    \E r \in Readers : handlerBegin(r) \/ handlerLock(r) \/ ReaderStep(r)

\* C14: cacheData is written by the refresh worker only: every step that
\* changes it is one of the worker's two assignment steps, and no step of a
\* read handler or of the refresh-trigger handler changes it.
C14_OnlyWorkerWritesCacheData ==
    /\ [][cacheData' # cacheData =>
            (refreshCacheAssignPtr(Loop) \/ refreshCacheAssignLen(Loop))]_vars
    /\ [][(HandlerStep \/ TriggerStep) => cacheData' = cacheData]_vars

\* C14 witness: the worker has published its second page after a trigger,
\* and a read handler has answered with the first.
C14_Witness ==
    /\ cacheData = Page(2)
    /\ triggers >= 1
    /\ \E r \in Readers : resp[r].body = Page(1)

\* The names of the Projects of ps.
Names(ps) == {ps[i].Name : i \in 1..Len(ps)}

\* C15: the Project of a configuration is in the list as soon as its
\* iteration is over, whatever its calls came to: the Projects are those of
\* the configurations gone through so far, and when getTpl returns its page
\* they are those of all the configurations fetched, a Project all of whose
\* configurations were skipped being there with no Builds.
C15_EveryProjectNameHasAnEntry ==
    /\ tplPc \in {"loop", "done"} =>
           Names(projs) = {types[k].ProjectName : k \in 1..tplIdx}
    /\ tplPc = "done" =>
           /\ tplIdx = Len(types)
           /\ \A p \in Names(projs) : Cardinality({i \in 1..Len(projs) : projs[i].Name = p}) = 1

\* C15 witness: getTpl returned a page for two Projects, the first with
\* all its configurations skipped and no Builds, the second with a build.
C15_Witness ==
    /\ tplPc = "done"
    /\ Len(projs) = 2
    /\ projs[1].Builds = <<>>
    /\ projs[2].Builds # <<>>
    /\ \E k \in 1..Len(types) : types[k].ProjectName = projs[1].Name

\* C18 as stated: main's startup send cannot block, and at the step that
\* starts the server exactly one request is pending in the channel.
C18_OnePendingWhenServingStarts ==
    /\ [](mainPc = "send" => ENABLED MainSend)
    /\ [][MainListen => refreshRequests' = 1]_vars

\* C18: main's startup send cannot block: the channel is empty and no
\* trigger has been handled when main is at the send.  At the step that
\* starts the server no trigger has been handled and the startup request is
\* either pending or already taken by the worker: the requests pending and
\* the executions started add up to one.  Until the first execution starts
\* the startup request stays pending, and the first execution eventually
\* starts, with or without a trigger.
C18_StartupRequestRunsFirstRefresh ==
    /\ [](mainPc = "send" => (ENABLED MainSend /\ refreshRequests = 0 /\ triggers = 0))
    /\ [][MainListen => (triggers' = 0 /\ refreshRequests' + cycle' = 1)]_vars
    /\ []((mainPc \in {"listen", "serving"} /\ cycle = 0) => refreshRequests = 1)
    /\ <>(cycle >= 1)

\* C18 witness: the server is serving, no trigger has been handled, and the
\* worker has already taken the startup request: none is pending.
C18_Witness ==
    /\ mainPc = "serving"
    /\ triggers = 0
    /\ refreshRequests = 0
    /\ cycle = 1

\* --------------------------------------------------- getJSON in detail
\* Calls of getJSON under one setting of the -auth flag.  A string is the
\* sequence of its characters.

\* "/guestAuth", "/httpAuth"
GuestAuth == <<"/", "g", "u", "e", "s", "t", "A", "u", "t", "h">>
HttpAuth == <<"/", "h", "t", "t", "p", "A", "u", "t", "h">>
\* The server address of the -base flag.
Base == <<"h", "t", "t", "p", "s", ":", "/", "/", "t", "c">>

\* strings.HasPrefix
HasPrefix(s, prefix) ==
    /\ Len(s) >= Len(prefix)
    /\ SubSeq(s, 1, Len(prefix)) = prefix

\* strings.Split(s, sep) for a non-empty sep: the pieces of s between the
\* occurrences of sep, taken from the left.
RECURSIVE Split(_, _)
Split(s, sep) ==
    LET hits == {i \in 1..Len(s) : HasPrefix(SubSeq(s, i, Len(s)), sep)}
    IN IF hits = {} THEN <<s>>
       ELSE LET i == CHOOSE h \in hits : \A k \in hits : h <= k
            IN <<SubSeq(s, 1, i - 1)>> \o Split(SubSeq(s, i + Len(sep), Len(s)), sep)

\* The strings in the order of ss, joined.
RECURSIVE Concat(_)
Concat(ss) == IF ss = <<>> THEN <<>> ELSE Head(ss) \o Concat(Tail(ss))

\* The values of the -auth flag: the strings of "u" and ":" of up to
\* MaxAuthLen characters ("" is no credential).
Auths == UNION {[1..n -> {"u", ":"}] : n \in 0..MaxAuthLen}

\* The paths getJSON is called with: the program's own "/app/rest/..."
\* paths, and the href upstream gave for a build, which starts with the
\* access prefix of the request that fetched it, or with none.
Segments == {<<"/", "a", "p", "p">>, <<"/", "i", "d">>}
Paths ==
    {pre \o Concat(segs) :
        pre \in {<<>>, GuestAuth, HttpAuth},
        segs \in UNION {[1..n -> Segments] : n \in 1..MaxSegments}}

InitJSON ==
    /\ TplInit
    /\ JSONInit
    /\ auth \in Auths
    /\ mainPc = "serving"
    /\ refreshRequests = 0
    /\ cacheMut = Unlocked
    /\ cacheData = NilSlice
    /\ cacheTime = 0
    /\ now = 0
    /\ refreshedAt = 0
    /\ pc = [g \in Goroutines |-> IF g = Loop THEN "unborn" ELSE "idle"]
    /\ bs = [g \in Goroutines |-> NilSlice]
    /\ err = [g \in Goroutines |-> ""]
    /\ resp = [g \in Readers |-> NoResponse]
    /\ cycle = 0
    /\ triggers = 0
    /\ burst = 0
    /\ prevBurst = 0
    /\ late = FALSE
    /\ ranSince = 0

\* getJSON is called with a path.
getJSONCall ==
    /\ jsonPc = "idle"
    /\ \E u \in Paths : url' = u
    /\ req' = NoRequest
    /\ jsonPc' = "NewRequest"
    /\ UNCHANGED auth
    /\ UNCHANGED <<coordVars, cacheVars, clockVars, tplVars>>

\* Mutant: the access prefix is chosen without looking at the path.
authPartNoLook ==
    IF auth # <<>> THEN HttpAuth ELSE GuestAuth

\* getJSON: the switch that sets authPart.
authPart ==
    IF HasPrefix(url, GuestAuth) THEN <<>>
    ELSE IF HasPrefix(url, HttpAuth) THEN <<>>
    ELSE IF auth # <<>> THEN HttpAuth
    ELSE GuestAuth

\* getJSON: req, err := http.NewRequest(http.MethodGet, base+authPart+url, nil)
getJSONNewRequest ==
    /\ jsonPc = "NewRequest"
    /\ req' = [URL |-> Base \o authPart \o url, Authorization |-> <<>>]
    /\ jsonPc' = "SetBasicAuth"
    /\ UNCHANGED <<auth, url>>
    /\ UNCHANGED <<coordVars, cacheVars, clockVars, tplVars>>

\* req.SetBasicAuth(username, password): the Authorization header is
\* "Basic " and the encoding of username + ":" + password; the encoding is
\* one to one and is left out.
SetBasicAuth(r, username, password) ==
    [r EXCEPT !.Authorization = <<"Basic", username \o <<":">> \o password>>]

\* getJSON: if auth != "" { fields := strings.Split(auth, ":");
\* if len(fields) == 2 { req.SetBasicAuth(fields[0], fields[1]) } }
getJSONSetBasicAuth ==
    /\ jsonPc = "SetBasicAuth"
    /\ LET fields == Split(auth, <<":">>)
       IN req' = IF auth # <<>> /\ Len(fields) = 2
                 THEN SetBasicAuth(req, fields[1], fields[2])
                 ELSE req
    /\ jsonPc' = "Do"
    /\ UNCHANGED <<auth, url>>
    /\ UNCHANGED <<coordVars, cacheVars, clockVars, tplVars>>

\* getJSON: http.DefaultClient.Do(req) sends the request; whatever comes
\* back, getJSON returns.
getJSONDo ==
    /\ jsonPc = "Do"
    /\ jsonPc' = "idle"
    /\ UNCHANGED <<auth, url, req>>
    /\ UNCHANGED <<coordVars, cacheVars, clockVars, tplVars>>

NextJSON ==
    \/ getJSONCall
    \/ getJSONNewRequest
    \/ getJSONSetBasicAuth
    \/ getJSONDo

SpecJSON == InitJSON /\ [][NextJSON]_vars

\* The places of s where an access prefix starts.
AccessPrefixes(s) ==
    {i \in 1..Len(s) :
        \/ HasPrefix(SubSeq(s, i, Len(s)), GuestAuth)
        \/ HasPrefix(SubSeq(s, i, Len(s)), HttpAuth)}

\* C16: the request getJSON sends goes to base + prefix + path, the prefix
\* being empty when the path starts with "/guestAuth" or "/httpAuth", else
\* "/httpAuth" with a credential configured and "/guestAuth" with none; the
\* URL has exactly one access prefix, right after base.
C16_OneAccessPrefix ==
    jsonPc = "Do" =>
        LET prefix == IF HasPrefix(url, GuestAuth) \/ HasPrefix(url, HttpAuth) THEN <<>>
                      ELSE IF auth = <<>> THEN GuestAuth
                      ELSE HttpAuth
        IN /\ req.URL = Base \o prefix \o url
           /\ AccessPrefixes(req.URL) = {Len(Base) + 1}

\* C16 witness: with a credential configured, a path that came with the
\* guest prefix is about to be requested as it is.
C16_Witness ==
    /\ jsonPc = "Do"
    /\ auth # <<>>
    /\ HasPrefix(url, GuestAuth)
    /\ req.URL = Base \o url

\* C17: with a non-empty credential configured, the request getJSON sends
\* carries the credential as basic authentication.
C17_CredentialIsAlwaysAttached ==
    (jsonPc = "Do" /\ auth # <<>>) => req.Authorization = <<"Basic", auth>>

====
